---- MODULE Spec2Model ----
(***************************************************************************)
(* Model of the load generator of src/main.go: parseFlags, runLoadTest     *)
(* (worker pool, job producer, aggregation loop, shutdown) and worker.     *)
(*                                                                         *)
(* Processes: main (parseFlags + runLoadTest), the job producer goroutine  *)
(* (main.go:119-124) and one goroutine per worker (main.go:110-116).       *)
(* Channels are FIFO sequences with a capacity and a closed flag.          *)
(* Wall-clock values (Result.Duration, Report.TotalTime) are not part of   *)
(* the state: no control decision in main.go reads them.                   *)
(***************************************************************************)
EXTENDS Integers, Sequences, FiniteSets, TLC

\* ---------------------------------------------------------------- bounds
MaxRequests == 3
MaxConcurrency == 2

\* ------------------------------------------------------------- constants
\* progress is printed every ProgressEvery results (main.go:143)
ProgressEvery == 100
\* the status code that counts as a success (main.go:138)
StatusOK == 200

\* ---------------------------------------------------- input abstraction
\* Three classes of --url values: empty (rejected by parseFlags), one that
\* http.NewRequestWithContext rejects, and one that it accepts.
EmptyURL == ""
BadURL == "http://bad host:%zz"
GoodURL == "http://ok"
URLs == {EmptyURL, BadURL, GoodURL}

\* status codes the server may answer with: the success code and one other
\* (main.go treats every code other than 200 alike, as a key of the map)
StatusSet == {200, 404}

Workers == 1..MaxConcurrency
Tickets == 0..(MaxRequests - 1)
NoTicket == -1
NoConfig == [URL |-> EmptyURL, Requests |-> 0, Concurrency |-> 0]

VARIABLES
  raw,              \* the command line: [URL, Requests, Concurrency]
  config,           \* *Config returned by parseFlags
  mainpc,           \* position of main / runLoadTest
  spawnI,           \* loop variable i of main.go:110
  aggI,             \* loop variable i of main.go:130
  wg,               \* sync.WaitGroup counter
  cancelled,        \* ctx.Done() is closed
  ctxCancellations, \* number of times ctx went from live to canceled
  cancelCalls,      \* number of invocations of cancel()
  jobs,             \* buffer of the jobs channel
  jobsClosed,
  prodpc,           \* position of the producer goroutine
  prodI,            \* loop variable i of main.go:121
  results,          \* buffer of the results channel
  resultsClosed,
  pc,               \* position of each worker goroutine
  ticket,           \* the ticket a worker is handling
  res,              \* the Result a worker is about to send
  report,           \* *Report being built by runLoadTest
  progress,         \* the X of every "Progress: X/Y" line printed
  returned,         \* runLoadTest has returned report
  panicked,         \* a goroutine panicked (send on closed channel, ...)
  claimCount,       \* history: receptions of each ticket from jobs
  attempts,         \* history: client.Do calls made for each ticket
  sentCount,        \* history: Results sent for each ticket
  emitted,          \* history: the tickets sent on jobs, in order
  produced          \* history: outcomes obtained, per code (0 = error)

vars == <<raw, config, mainpc, spawnI, aggI, wg, cancelled, ctxCancellations,
          cancelCalls, jobs, jobsClosed, prodpc, prodI, results,
          resultsClosed, pc, ticket, res, report, progress, returned,
          panicked, claimCount, attempts, sentCount, emitted, produced>>

mainVars == <<raw, config, mainpc, spawnI, aggI, report, progress, returned>>
ctxVars == <<cancelled, ctxCancellations, cancelCalls>>
jobVars == <<jobs, jobsClosed, prodpc, prodI>>
resVars == <<results, resultsClosed>>
workerVars == <<pc, ticket, res>>
histVars == <<claimCount, attempts, sentCount, emitted, produced>>

\* ------------------------------------------------------------ data types
\* Result{Error: err, ...}: StatusCode keeps its zero value
ErrResult == [StatusCode |-> 0, Error |-> TRUE]
OKResult(code) == [StatusCode |-> code, Error |-> FALSE]
ZeroResult == [StatusCode |-> 0, Error |-> FALSE]

\* &Report{StatusCodes: make(map[int]int)}
EmptyReport == [TotalRequests |-> 0, SuccessRequests |-> 0, StatusCodes |-> <<>>]

\* m[k] of a Go map[int]int: 0 when the key is absent
MapGet(m, k) == IF k \in DOMAIN m THEN m[k] ELSE 0

\* m[k]++ of a Go map[int]int: creates the key when absent
MapInc(m, k) == (k :> (MapGet(m, k) + 1)) @@ m

RECURSIVE SumOver(_, _)
SumOver(m, keys) ==
  IF keys = {} THEN 0
  ELSE LET k == CHOOSE x \in keys : TRUE
       IN m[k] + SumOver(m, keys \ {k})

\* sum of all values of a map
SumMap(m) == SumOver(m, DOMAIN m)

\* ------------------------------------------------------------ parseFlags
\* variant: Concurrency is not clamped to Requests
parseFlags_NoClamp(r) ==
  IF r.URL = EmptyURL \/ r.Requests <= 0 \/ r.Concurrency <= 0
  THEN [err |-> TRUE, config |-> NoConfig]
  ELSE [err |-> FALSE,
        config |-> [URL |-> r.URL,
                    Requests |-> r.Requests,
                    Concurrency |-> r.Concurrency]]

\* variant: a zero or negative Concurrency is accepted
parseFlags_NoConcurrencyCheck(r) ==
  IF r.URL = EmptyURL \/ r.Requests <= 0
  THEN [err |-> TRUE, config |-> NoConfig]
  ELSE [err |-> FALSE,
        config |-> [URL |-> r.URL,
                    Requests |-> r.Requests,
                    Concurrency |-> IF r.Concurrency > r.Requests
                                    THEN r.Requests ELSE r.Concurrency]]

\* main.go:41-54: the three validations, then the clamp of Concurrency
parseFlags(r) ==
  IF r.URL = EmptyURL \/ r.Requests <= 0 \/ r.Concurrency <= 0
  THEN [err |-> TRUE, config |-> NoConfig]
  ELSE [err |-> FALSE,
        config |-> [URL |-> r.URL,
                    Requests |-> r.Requests,
                    Concurrency |-> IF r.Concurrency > r.Requests
                                    THEN r.Requests ELSE r.Concurrency]]

\* http.NewRequestWithContext(ctx, "GET", url, nil) returns an error
NewRequestFails(url) == url = BadURL

\* variant: the jobs buffer sized to the number of workers
JobsCap_Concurrency == config.Concurrency

\* make(chan int, config.Requests)
JobsCap == config.Requests

\* variant: the sink sized to the number of workers
ResultsCap_Concurrency == config.Concurrency

\* make(chan Result, config.Requests)
ResultsCap == config.Requests

\* variant: the loop stops one iteration early
AggLoopCond_OffByOne == aggI < config.Requests - 1

\* the condition of the aggregation loop, main.go:130
AggLoopCond == aggI < config.Requests

\* the condition of the producer loop, main.go:121
ProdLoopCond == prodI < config.Requests

\* variant: the wait group is not waited for
WaitDone_Skip == TRUE

\* wg.Wait() returns
WaitDone == wg = 0

\* variant: the test is made on i instead of i+1
ProgressDue_ZeroBased(i, total) == i % ProgressEvery = 0 \/ i + 1 = total

\* (i+1)%100 == 0 || i+1 == config.Requests
ProgressDue(i, total) == (i + 1) % ProgressEvery = 0 \/ i + 1 = total

\* variant: an error Result is counted in TotalRequests only
Aggregate_NoErrCount(rep, result) ==
  IF result.Error
  THEN [rep EXCEPT !.TotalRequests = @ + 1]
  ELSE [rep EXCEPT !.TotalRequests = @ + 1,
                   !.StatusCodes = MapInc(@, result.StatusCode),
                   !.SuccessRequests =
                      IF result.StatusCode = StatusOK THEN @ + 1 ELSE @]

\* variant: every response without error counts as a success
Aggregate_SuccessAny(rep, result) ==
  IF result.Error
  THEN [rep EXCEPT !.TotalRequests = @ + 1,
                   !.StatusCodes = MapInc(@, 0)]
  ELSE [rep EXCEPT !.TotalRequests = @ + 1,
                   !.StatusCodes = MapInc(@, result.StatusCode),
                   !.SuccessRequests = @ + 1]

\* variant: the histogram entry is set to 1 instead of incremented
Aggregate_SetNotInc(rep, result) ==
  IF result.Error
  THEN [rep EXCEPT !.TotalRequests = @ + 1,
                   !.StatusCodes = [x \in (DOMAIN @) \cup {0} |->
                                      IF x = 0 THEN 1 ELSE @[x]]]
  ELSE [rep EXCEPT !.TotalRequests = @ + 1,
                   !.StatusCodes = [x \in (DOMAIN @) \cup {result.StatusCode} |->
                                      IF x = result.StatusCode THEN 1 ELSE @[x]],
                   !.SuccessRequests =
                      IF result.StatusCode = StatusOK THEN @ + 1 ELSE @]

\* variant: a response with a status of 400 or more is counted as an error
Aggregate_ErrorOn4xx5xx(rep, result) ==
  IF result.Error \/ result.StatusCode >= 400
  THEN [rep EXCEPT !.TotalRequests = @ + 1,
                   !.StatusCodes = MapInc(@, 0)]
  ELSE [rep EXCEPT !.TotalRequests = @ + 1,
                   !.StatusCodes = MapInc(@, result.StatusCode),
                   !.SuccessRequests =
                      IF result.StatusCode = StatusOK THEN @ + 1 ELSE @]

\* the body of the aggregation loop applied to one Result, main.go:132-141
Aggregate(rep, result) ==
  IF result.Error
  THEN [rep EXCEPT !.TotalRequests = @ + 1,
                   !.StatusCodes = MapInc(@, 0)]
  ELSE [rep EXCEPT !.TotalRequests = @ + 1,
                   !.StatusCodes = MapInc(@, result.StatusCode),
                   !.SuccessRequests =
                      IF result.StatusCode = StatusOK THEN @ + 1 ELSE @]

\* what client.Do(req) can return: an error (transport failure, timeout, or
\* the request's context already canceled) or a response with a status code
DoOutcomes ==
  IF cancelled THEN {ErrResult}
  ELSE {ErrResult} \cup {OKResult(s) : s \in StatusSet}

\* variant: cancellation by close(done), which panics when repeated
cancel_CloseTwice ==
  /\ cancelled' = TRUE
  /\ ctxCancellations' = IF cancelled THEN ctxCancellations
                         ELSE ctxCancellations + 1
  /\ cancelCalls' = cancelCalls + 1
  /\ panicked' = cancelled

\* cancel(): the first call closes ctx.Done(), later calls do nothing
cancel ==
  /\ cancelled' = TRUE
  /\ ctxCancellations' = IF cancelled THEN ctxCancellations
                         ELSE ctxCancellations + 1
  /\ cancelCalls' = cancelCalls + 1
  /\ panicked' = panicked

\* ------------------------------------------------------------------ Init
Init ==
  /\ raw \in [URL : URLs,
              Requests : (-1)..MaxRequests,
              Concurrency : (-1)..MaxConcurrency]
  /\ config = NoConfig
  /\ mainpc = "parse"
  /\ spawnI = 0
  /\ aggI = 0
  /\ wg = 0
  /\ cancelled = FALSE
  /\ ctxCancellations = 0
  /\ cancelCalls = 0
  /\ jobs = <<>>
  /\ jobsClosed = FALSE
  /\ prodpc = "unstarted"
  /\ prodI = 0
  /\ results = <<>>
  /\ resultsClosed = FALSE
  /\ pc = [w \in Workers |-> "unstarted"]
  /\ ticket = [w \in Workers |-> NoTicket]
  /\ res = [w \in Workers |-> ZeroResult]
  /\ report = EmptyReport
  /\ progress = <<>>
  /\ returned = FALSE
  /\ panicked = FALSE
  /\ claimCount = [t \in Tickets |-> 0]
  /\ attempts = [t \in Tickets |-> 0]
  /\ sentCount = [t \in Tickets |-> 0]
  /\ emitted = <<>>
  /\ produced = <<>>

\* ------------------------------------------------------------------ main
\* main.go:185-191: parseFlags, exit(1) on error
MainParseFlags ==
  /\ ~panicked
  /\ mainpc = "parse"
  /\ LET r == parseFlags(raw)
     IN IF r.err
        THEN mainpc' = "exit1" /\ config' = config
        ELSE mainpc' = "run" /\ config' = r.config
  /\ UNCHANGED <<raw, spawnI, aggI, report, progress, returned, wg, panicked>>
  /\ UNCHANGED <<ctxVars, jobVars, resVars, workerVars, histVars>>

\* main.go:93-109: runLoadTest is entered; client, ctx, channels, wg
MainSetup ==
  /\ ~panicked
  /\ mainpc = "run"
  /\ mainpc' = "spawn"
  /\ spawnI' = 0
  /\ jobs' = <<>> /\ jobsClosed' = FALSE
  /\ results' = <<>> /\ resultsClosed' = FALSE
  /\ cancelled' = FALSE
  /\ wg' = 0
  /\ UNCHANGED <<raw, config, aggI, report, progress, returned, panicked>>
  /\ UNCHANGED <<ctxCancellations, cancelCalls, prodpc, prodI>>
  /\ UNCHANGED <<workerVars, histVars>>

\* variant: the loop that starts the workers runs once too often
MainSpawn_OneMore ==
  /\ ~panicked
  /\ mainpc = "spawn"
  /\ spawnI <= config.Concurrency
  /\ wg' = wg + 1
  /\ pc' = [pc EXCEPT ![spawnI + 1] = "select"]
  /\ spawnI' = spawnI + 1
  /\ UNCHANGED <<raw, config, mainpc, aggI, report, progress, returned>>
  /\ UNCHANGED <<ticket, res, panicked>>
  /\ UNCHANGED <<ctxVars, jobVars, resVars, histVars>>

\* main.go:110-116: one iteration of the loop that starts the workers
MainSpawn ==
  /\ ~panicked
  /\ mainpc = "spawn"
  /\ spawnI < config.Concurrency
  /\ wg' = wg + 1
  /\ pc' = [pc EXCEPT ![spawnI + 1] = "select"]
  /\ spawnI' = spawnI + 1
  /\ UNCHANGED <<raw, config, mainpc, aggI, report, progress, returned>>
  /\ UNCHANGED <<ticket, res, panicked>>
  /\ UNCHANGED <<ctxVars, jobVars, resVars, histVars>>

\* variant: cancel() is called before the aggregation loop
MainStartProducer_CancelFirst ==
  /\ ~panicked
  /\ mainpc = "spawn"
  /\ ~(spawnI < config.Concurrency)
  /\ prodpc' = "loop"
  /\ prodI' = 0
  /\ report' = EmptyReport
  /\ aggI' = 0
  /\ mainpc' = "agg"
  /\ cancel
  /\ UNCHANGED <<raw, config, spawnI, progress, returned, wg>>
  /\ UNCHANGED <<jobs, jobsClosed>>
  /\ UNCHANGED <<resVars, workerVars, histVars>>

\* main.go:118-128: the producer goroutine is started, the report is made
MainStartProducer ==
  /\ ~panicked
  /\ mainpc = "spawn"
  /\ ~(spawnI < config.Concurrency)
  /\ prodpc' = "loop"
  /\ prodI' = 0
  /\ report' = EmptyReport
  /\ aggI' = 0
  /\ mainpc' = "agg"
  /\ UNCHANGED <<raw, config, spawnI, progress, returned, wg, panicked>>
  /\ UNCHANGED <<jobs, jobsClosed>>
  /\ UNCHANGED <<ctxVars, resVars, workerVars, histVars>>

\* variant: the run is aborted (cancel()) on the first error Result
MainAggregate_AbortOnError ==
  /\ ~panicked
  /\ mainpc = "agg"
  /\ AggLoopCond
  /\ results # <<>>
  /\ results' = Tail(results)
  /\ report' = Aggregate(report, Head(results))
  /\ progress' = IF ProgressDue(aggI, config.Requests)
                 THEN Append(progress, aggI + 1) ELSE progress
  /\ aggI' = aggI + 1
  /\ IF Head(results).Error THEN cancel
     ELSE UNCHANGED <<ctxVars, panicked>>
  /\ UNCHANGED <<raw, config, mainpc, spawnI, returned, wg>>
  /\ UNCHANGED resultsClosed
  /\ UNCHANGED <<jobVars, workerVars, histVars>>

\* main.go:130-146: one iteration of the aggregation loop
MainAggregate ==
  /\ ~panicked
  /\ mainpc = "agg"
  /\ AggLoopCond
  /\ results # <<>>
  /\ results' = Tail(results)
  /\ report' = Aggregate(report, Head(results))
  /\ progress' = IF ProgressDue(aggI, config.Requests)
                 THEN Append(progress, aggI + 1) ELSE progress
  /\ aggI' = aggI + 1
  /\ UNCHANGED <<raw, config, mainpc, spawnI, returned, wg, panicked>>
  /\ UNCHANGED resultsClosed
  /\ UNCHANGED <<ctxVars, jobVars, workerVars, histVars>>

\* main.go:148-150: the loop is over; TotalTime, then cancel()
MainCancel ==
  /\ ~panicked
  /\ mainpc = "agg"
  /\ ~AggLoopCond
  /\ cancel
  /\ mainpc' = "wait"
  /\ UNCHANGED <<raw, config, spawnI, aggI, report, progress, returned, wg>>
  /\ UNCHANGED <<jobVars, resVars, workerVars, histVars>>

\* main.go:151: wg.Wait()
MainWait ==
  /\ ~panicked
  /\ mainpc = "wait"
  /\ WaitDone
  /\ mainpc' = "close"
  /\ UNCHANGED <<raw, config, spawnI, aggI, report, progress, returned, wg>>
  /\ UNCHANGED panicked
  /\ UNCHANGED <<ctxVars, jobVars, resVars, workerVars, histVars>>

\* main.go:152: close(results)
MainClose ==
  /\ ~panicked
  /\ mainpc = "close"
  /\ IF resultsClosed
     THEN panicked' = TRUE /\ resultsClosed' = resultsClosed
     ELSE panicked' = panicked /\ resultsClosed' = TRUE
  /\ mainpc' = "return"
  /\ UNCHANGED <<raw, config, spawnI, aggI, report, progress, returned, wg>>
  /\ UNCHANGED results
  /\ UNCHANGED <<ctxVars, jobVars, workerVars, histVars>>

\* main.go:154 and the deferred cancel() of main.go:104
MainReturn ==
  /\ ~panicked
  /\ mainpc = "return"
  /\ cancel
  /\ returned' = TRUE
  /\ mainpc' = "returned"
  /\ UNCHANGED <<raw, config, spawnI, aggI, report, progress, wg>>
  /\ UNCHANGED <<jobVars, resVars, workerVars, histVars>>

Main ==
  \/ MainParseFlags
  \/ MainSetup
  \/ MainSpawn
  \/ MainStartProducer
  \/ MainAggregate
  \/ MainCancel
  \/ MainWait
  \/ MainClose
  \/ MainReturn

\* -------------------------------------------------------------- producer
\* main.go:121-123: jobs <- i
ProducerSend ==
  /\ ~panicked
  /\ prodpc = "loop"
  /\ ProdLoopCond
  /\ IF jobsClosed
     THEN /\ panicked' = TRUE
          /\ UNCHANGED <<jobs, prodI, emitted>>
     ELSE /\ Len(jobs) < JobsCap
          /\ jobs' = Append(jobs, prodI)
          /\ emitted' = Append(emitted, prodI)
          /\ prodI' = prodI + 1
          /\ panicked' = panicked
  /\ UNCHANGED <<jobsClosed, prodpc, wg>>
  /\ UNCHANGED <<claimCount, attempts, sentCount, produced>>
  /\ UNCHANGED <<mainVars, ctxVars, resVars, workerVars>>

\* main.go:120: the deferred close(jobs), when the loop is over
ProducerClose ==
  /\ ~panicked
  /\ prodpc = "loop"
  /\ ~ProdLoopCond
  /\ jobsClosed' = TRUE
  /\ panicked' = jobsClosed
  /\ prodpc' = "done"
  /\ UNCHANGED <<jobs, prodI, wg>>
  /\ UNCHANGED <<mainVars, ctxVars, resVars, workerVars, histVars>>

Producer == ProducerSend \/ ProducerClose

\* ---------------------------------------------------------------- worker
\* main.go:60-61: the select takes <-ctx.Done(); return, deferred wg.Done()
WorkerCtxDone(w) ==
  /\ ~panicked
  /\ pc[w] = "select"
  /\ cancelled
  /\ pc' = [pc EXCEPT ![w] = "done"]
  /\ wg' = wg - 1
  /\ UNCHANGED <<ticket, res, panicked>>
  /\ UNCHANGED <<mainVars, ctxVars, jobVars, resVars, histVars>>

\* variant: the ok flag of the receive is ignored, the zero value received
\* from the closed channel is handled as a ticket
WorkerJobsClosed_IgnoreOk(w) ==
  /\ ~panicked
  /\ pc[w] = "select"
  /\ jobs = <<>>
  /\ jobsClosed
  /\ ticket' = [ticket EXCEPT ![w] = 0]
  /\ claimCount' = [claimCount EXCEPT ![0] = @ + 1]
  /\ pc' = [pc EXCEPT ![w] = "build"]
  /\ UNCHANGED <<res, wg, panicked>>
  /\ UNCHANGED <<attempts, sentCount, emitted, produced>>
  /\ UNCHANGED <<mainVars, ctxVars, jobVars, resVars>>

\* main.go:62-65: the select takes <-jobs on the closed, empty channel
WorkerJobsClosed(w) ==
  /\ ~panicked
  /\ pc[w] = "select"
  /\ jobs = <<>>
  /\ jobsClosed
  /\ pc' = [pc EXCEPT ![w] = "done"]
  /\ wg' = wg - 1
  /\ UNCHANGED <<ticket, res, panicked>>
  /\ UNCHANGED <<mainVars, ctxVars, jobVars, resVars, histVars>>

\* main.go:62-67: the select takes <-jobs and receives a ticket
WorkerClaim(w) ==
  /\ ~panicked
  /\ pc[w] = "select"
  /\ jobs # <<>>
  /\ ticket' = [ticket EXCEPT ![w] = Head(jobs)]
  /\ jobs' = Tail(jobs)
  /\ claimCount' = [claimCount EXCEPT ![Head(jobs)] = @ + 1]
  /\ pc' = [pc EXCEPT ![w] = "build"]
  /\ UNCHANGED <<res, wg, panicked, jobsClosed, prodpc, prodI>>
  /\ UNCHANGED <<attempts, sentCount, emitted, produced>>
  /\ UNCHANGED <<mainVars, ctxVars, resVars>>

\* variant: the construction error path continues without sending a Result
WorkerNewRequest_DropError(w) ==
  /\ ~panicked
  /\ pc[w] = "build"
  /\ IF NewRequestFails(config.URL)
     THEN /\ res' = res
          /\ produced' = MapInc(produced, 0)
          /\ pc' = [pc EXCEPT ![w] = "select"]
     ELSE /\ res' = res
          /\ produced' = produced
          /\ pc' = [pc EXCEPT ![w] = "call"]
  /\ UNCHANGED <<ticket, wg, panicked>>
  /\ UNCHANGED <<claimCount, attempts, sentCount, emitted>>
  /\ UNCHANGED <<mainVars, ctxVars, jobVars, resVars>>

\* main.go:68-72: http.NewRequestWithContext and its error path
WorkerNewRequest(w) ==
  /\ ~panicked
  /\ pc[w] = "build"
  /\ IF NewRequestFails(config.URL)
     THEN /\ res' = [res EXCEPT ![w] = ErrResult]
          /\ produced' = MapInc(produced, 0)
          /\ pc' = [pc EXCEPT ![w] = "send"]
     ELSE /\ res' = res
          /\ produced' = produced
          /\ pc' = [pc EXCEPT ![w] = "call"]
  /\ UNCHANGED <<ticket, wg, panicked>>
  /\ UNCHANGED <<claimCount, attempts, sentCount, emitted>>
  /\ UNCHANGED <<mainVars, ctxVars, jobVars, resVars>>

\* main.go:74-86: client.Do(req) returns; the Result is built
WorkerDo(w) ==
  /\ ~panicked
  /\ pc[w] = "call"
  /\ \E outcome \in DoOutcomes :
       /\ res' = [res EXCEPT ![w] = outcome]
       /\ produced' = MapInc(produced, outcome.StatusCode)
  /\ attempts' = [attempts EXCEPT ![ticket[w]] = @ + 1]
  /\ pc' = [pc EXCEPT ![w] = "send"]
  /\ UNCHANGED <<ticket, wg, panicked, claimCount, sentCount>>
  /\ UNCHANGED emitted
  /\ UNCHANGED <<mainVars, ctxVars, jobVars, resVars>>

\* variant: a failed request is retried once before its Result is sent
WorkerSend_Retry(w) ==
  /\ ~panicked
  /\ pc[w] = "send"
  /\ IF res[w].Error /\ attempts[ticket[w]] = 1
     THEN /\ pc' = [pc EXCEPT ![w] = "build"]
          /\ UNCHANGED <<results, sentCount, ticket, res, panicked>>
     ELSE IF resultsClosed
     THEN /\ panicked' = TRUE
          /\ UNCHANGED <<results, sentCount, pc, ticket, res>>
     ELSE /\ Len(results) < ResultsCap
          /\ results' = Append(results, res[w])
          /\ sentCount' = [sentCount EXCEPT ![ticket[w]] = @ + 1]
          /\ pc' = [pc EXCEPT ![w] = "select"]
          /\ ticket' = [ticket EXCEPT ![w] = NoTicket]
          /\ res' = [res EXCEPT ![w] = ZeroResult]
          /\ panicked' = panicked
  /\ UNCHANGED <<resultsClosed, wg, claimCount, attempts>>
  /\ UNCHANGED <<emitted, produced>>
  /\ UNCHANGED <<mainVars, ctxVars, jobVars>>

\* variant: after a failed request the worker returns instead of continuing
WorkerSend_ReturnOnError(w) ==
  /\ ~panicked
  /\ pc[w] = "send"
  /\ IF resultsClosed
     THEN /\ panicked' = TRUE
          /\ UNCHANGED <<results, sentCount, pc, ticket, res, wg>>
     ELSE /\ Len(results) < ResultsCap
          /\ results' = Append(results, res[w])
          /\ sentCount' = [sentCount EXCEPT ![ticket[w]] = @ + 1]
          /\ pc' = [pc EXCEPT ![w] = IF res[w].Error THEN "done" ELSE "select"]
          /\ wg' = IF res[w].Error THEN wg - 1 ELSE wg
          /\ ticket' = [ticket EXCEPT ![w] = NoTicket]
          /\ res' = [res EXCEPT ![w] = ZeroResult]
          /\ panicked' = panicked
  /\ UNCHANGED <<resultsClosed, claimCount, attempts>>
  /\ UNCHANGED <<emitted, produced>>
  /\ UNCHANGED <<mainVars, ctxVars, jobVars>>

\* main.go:70, 78, 83: results <- Result{...}, then the next iteration
WorkerSend(w) ==
  /\ ~panicked
  /\ pc[w] = "send"
  /\ IF resultsClosed
     THEN /\ panicked' = TRUE
          /\ UNCHANGED <<results, sentCount, pc, ticket, res>>
     ELSE /\ Len(results) < ResultsCap
          /\ results' = Append(results, res[w])
          /\ sentCount' = [sentCount EXCEPT ![ticket[w]] = @ + 1]
          /\ pc' = [pc EXCEPT ![w] = "select"]
          /\ ticket' = [ticket EXCEPT ![w] = NoTicket]
          /\ res' = [res EXCEPT ![w] = ZeroResult]
          /\ panicked' = panicked
  /\ UNCHANGED <<resultsClosed, wg, claimCount, attempts>>
  /\ UNCHANGED <<emitted, produced>>
  /\ UNCHANGED <<mainVars, ctxVars, jobVars>>

Worker(w) ==
  \/ WorkerCtxDone(w)
  \/ WorkerJobsClosed(w)
  \/ WorkerClaim(w)
  \/ WorkerNewRequest(w)
  \/ WorkerDo(w)
  \/ WorkerSend(w)

\* ------------------------------------------------------------------ Spec
Next ==
  \/ Main
  \/ Producer
  \/ \E w \in Workers : Worker(w)

Spec == Init /\ [][Next]_vars

\* The Go scheduler runs every runnable goroutine, and every HTTP call
\* returns (client.Timeout, main.go:100).
FairSpec ==
  /\ Spec
  /\ WF_vars(Main)
  /\ WF_vars(Producer)
  /\ \A w \in Workers : WF_vars(Worker(w))

\* ------------------------------------------------- long runs, aggregation
\* Runs long enough for the progress lines of main.go:143. They are taken
\* up at the state in which the aggregator has not yet received anything
\* while the producer has emitted and closed, the workers have answered every
\* ticket and wait in the select, and all results sit in the results buffer
\* (its capacity is Requests): from there only the aggregation loop, the
\* shutdown and the return of the workers remain.
ProgressRuns == {99, 100, 101, 199, 200, 201, 300}

\* the Results of such a run: one transport error every twentieth Result
BufferedResults(n) ==
  [i \in 1..n |-> IF i % 20 = 0 THEN ErrResult ELSE OKResult(StatusOK)]

ProgressInit ==
  /\ \E n \in ProgressRuns, c \in 1..MaxConcurrency :
       /\ raw = [URL |-> GoodURL, Requests |-> n, Concurrency |-> c]
       /\ config = [URL |-> GoodURL, Requests |-> n, Concurrency |-> c]
       /\ spawnI = c
       /\ wg = c
       /\ pc = [w \in Workers |-> IF w <= c THEN "select" ELSE "unstarted"]
       /\ prodI = n
       /\ emitted = [i \in 1..n |-> i - 1]
       /\ results = BufferedResults(n)
       /\ claimCount = [t \in 0..(n - 1) |-> 1]
       /\ attempts = [t \in 0..(n - 1) |-> 1]
       /\ sentCount = [t \in 0..(n - 1) |-> 1]
       /\ produced = (0 :> (n \div 20)) @@ (StatusOK :> (n - (n \div 20)))
  /\ mainpc = "agg"
  /\ aggI = 0
  /\ cancelled = FALSE
  /\ ctxCancellations = 0
  /\ cancelCalls = 0
  /\ jobs = <<>>
  /\ jobsClosed = TRUE
  /\ prodpc = "done"
  /\ resultsClosed = FALSE
  /\ ticket = [w \in Workers |-> NoTicket]
  /\ res = [w \in Workers |-> ZeroResult]
  /\ report = EmptyReport
  /\ progress = <<>>
  /\ returned = FALSE
  /\ panicked = FALSE

\* the steps that remain from ProgressInit
ProgressNext ==
  \/ MainAggregate
  \/ MainCancel
  \/ MainWait
  \/ MainClose
  \/ MainReturn
  \/ \E w \in Workers : WorkerJobsClosed(w)
  \/ \E w \in Workers : WorkerCtxDone(w)

ProgressSpec == ProgressInit /\ [][ProgressNext]_vars

\* ---------------------------------------------------------------- claims
\* the workers runLoadTest starts
Started == 1..config.Concurrency

\* worker w is between claiming a ticket and sending its Result
InFlight(w) == pc[w] \in {"build", "call", "send"}

\* wg.Wait() has returned in runLoadTest
Joined == mainpc \in {"close", "return", "returned"}

RECURSIVE SumFn(_, _)
SumFn(f, keys) ==
  IF keys = {} THEN 0
  ELSE LET k == CHOOSE x \in keys : TRUE
       IN f[k] + SumFn(f, keys \ {k})

\* C1: for every valid configuration, under fair scheduling and with every
\* HTTP call returning, runLoadTest eventually returns, and when it has
\* returned the aggregation loop has received exactly Requests results:
\* report.TotalRequests = config.Requests.
C1_TerminatesWithAllResults ==
  /\ (mainpc = "run") ~> returned
  /\ [](returned => /\ report.TotalRequests = config.Requests
                    /\ aggI = config.Requests
                    /\ results = <<>>)

C1_Witness ==
  /\ returned
  /\ config.Requests >= 3
  /\ config.Concurrency >= 2
  /\ report.TotalRequests = config.Requests

\* C2: every ticket is received from jobs by at most one worker, gets at
\* most one client.Do call and one Result; a ticket no worker holds any more
\* has exactly one Result; Results sent <= tickets claimed <= Requests; no
\* two workers hold the same ticket.
C2_OneClaimOneAttemptOneResult ==
  /\ \A t \in Tickets :
       /\ claimCount[t] <= 1
       /\ attempts[t] <= claimCount[t]
       /\ sentCount[t] <= claimCount[t]
       /\ (claimCount[t] = 1 /\ \A w \in Workers : ticket[w] # t)
             => sentCount[t] = 1
       /\ t >= config.Requests => claimCount[t] = 0
  /\ SumFn(sentCount, Tickets) <= SumFn(claimCount, Tickets)
  /\ SumFn(claimCount, Tickets) <= config.Requests
  /\ \A w1, w2 \in Workers :
       (w1 # w2 /\ ticket[w1] # NoTicket) => ticket[w1] # ticket[w2]

C2_Witness ==
  /\ returned
  /\ config.Requests >= 3
  /\ config.Concurrency >= 2
  /\ \A t \in 0..(config.Requests - 1) :
       claimCount[t] = 1 /\ attempts[t] = 1 /\ sentCount[t] = 1
  /\ 0 \in DOMAIN report.StatusCodes

\* C3: after every iteration of the aggregation loop and in the finished
\* Report, the values of report.StatusCodes sum to report.TotalRequests, and
\* TotalRequests = SuccessRequests + the sum of StatusCodes[c] for c # 200.
C3_HistogramSumsToTotal ==
  /\ SumMap(report.StatusCodes) = report.TotalRequests
  /\ report.TotalRequests =
       report.SuccessRequests
       + SumOver(report.StatusCodes, DOMAIN report.StatusCodes \ {StatusOK})
  /\ report.TotalRequests = aggI

C3_Witness ==
  /\ returned
  /\ report.TotalRequests >= 3
  /\ {0, 200, 404} \subseteq DOMAIN report.StatusCodes

\* C4: after every iteration of the aggregation loop and in the finished
\* Report, report.SuccessRequests = report.StatusCodes[200], 0 when the key
\* 200 is absent.
C4_SuccessIsCount200 ==
  report.SuccessRequests = MapGet(report.StatusCodes, StatusOK)

C4_Witness ==
  /\ returned
  /\ report.SuccessRequests >= 1
  /\ report.TotalRequests > report.SuccessRequests
  /\ 404 \in DOMAIN report.StatusCodes

\* C5: no Result is sent on results after close(results): the channel is
\* closed only when every started worker has returned and the wait group is
\* at zero, no goroutine panics, and runLoadTest returns only after the close.
C5_NoSendAfterClose ==
  /\ ~panicked
  /\ resultsClosed =>
       /\ \A w \in Started : pc[w] = "done"
       /\ wg = 0
       /\ Joined
  /\ mainpc \in {"return", "returned"} => resultsClosed
  /\ returned => resultsClosed

C5_Witness ==
  /\ resultsClosed
  /\ config.Concurrency >= 2
  /\ \A w \in Started : pc[w] = "done"
  /\ SumFn(sentCount, Tickets) = config.Requests

\* C6 (as stated): the shutdown events occur in the order cancel, drain of
\* the collected results, join of the workers, close of the sink; so a
\* Result is drained only once cancellation has been triggered.
C6_Original_CancelBeforeDrain ==
  /\ aggI > 0 => cancelled
  /\ Joined => aggI = config.Requests
  /\ resultsClosed => Joined

\* C6 (amended): the shutdown events occur in the order drain of all
\* Requests results, cancel, join of the workers, close of the sink: the
\* context is canceled only once the loop has drained every Result, the join
\* completes only after the cancel, and the sink is closed only after the
\* join.
C6_ShutdownOrder ==
  /\ cancelled => (aggI = config.Requests /\ mainpc # "agg")
  /\ aggI > 0 /\ mainpc = "agg" => ~cancelled
  /\ Joined => (cancelled /\ \A w \in Started : pc[w] = "done")
  /\ resultsClosed => Joined
  /\ mainpc \in {"wait", "close"} => ~resultsClosed

C6_Witness ==
  /\ mainpc = "return"
  /\ resultsClosed
  /\ cancelled
  /\ aggI = config.Requests
  /\ config.Requests >= 2

\* C7: cancellation is signalled only in a state where the aggregator has
\* received all Requests results, and from then on no worker is between
\* claiming a ticket and sending its Result.
C7_CancelOnlyWhenIdle ==
  cancelled =>
    /\ report.TotalRequests = config.Requests
    /\ \A w \in Workers : ~InFlight(w)
    /\ \A w \in Workers : ticket[w] = NoTicket

C7_Witness ==
  /\ cancelled
  /\ mainpc = "wait"
  /\ config.Requests >= 2
  /\ \E w \in Started : pc[w] = "select"
  /\ \E w \in Started : pc[w] = "done"

\* C8: the shared context goes from live to canceled exactly once in a run
\* of runLoadTest, and does so when the aggregator has drained all Requests
\* results (the results channel is empty and all tickets have a Result).
C8_CanceledOnceAfterDrain ==
  /\ ctxCancellations <= 1
  /\ cancelled <=> ctxCancellations = 1
  /\ returned => ctxCancellations = 1
  /\ ctxCancellations >= 1 =>
       /\ aggI = config.Requests
       /\ results = <<>>
       /\ SumFn(sentCount, Tickets) = config.Requests

C8_Witness ==
  /\ returned
  /\ ctxCancellations = 1
  /\ cancelCalls = 2
  /\ config.Requests >= 2

\* C9: the deferred cancel() at the return of runLoadTest, invoked when the
\* context is already canceled and every worker has exited, does not block,
\* does not panic and changes nothing but the number of calls: the context
\* stays canceled and the Report returned is the one built by the loop.
C9_CancelIdempotent ==
  /\ [](mainpc = "return" =>
          /\ ENABLED MainReturn
          /\ cancelled
          /\ \A w \in Started : pc[w] = "done")
  /\ [][(mainpc = "return" /\ mainpc' = "returned") =>
          /\ cancelled' = cancelled
          /\ ctxCancellations' = ctxCancellations
          /\ cancelCalls' = cancelCalls + 1
          /\ ~panicked'
          /\ report' = report
          /\ returned'
          /\ <<pc, wg, results, resultsClosed, jobs, jobsClosed>>'
               = <<pc, wg, results, resultsClosed, jobs, jobsClosed>>]_vars
  /\ [](mainpc = "returned" => returned /\ ~panicked)

C9_Witness ==
  /\ mainpc = "returned"
  /\ returned
  /\ cancelCalls = 2
  /\ cancelled
  /\ ~panicked
  /\ \A w \in Started : pc[w] = "done"

\* C10: whenever a worker is about to send on results, the channel buffers
\* at most Requests - 1 Results, which is below its capacity: the send is
\* enabled, under every interleaving of workers and aggregator.
C10_SendNeverBlocks ==
  /\ Len(results) <= ResultsCap
  /\ \A w \in Workers :
       pc[w] = "send" =>
         /\ Len(results) <= config.Requests - 1
         /\ Len(results) < ResultsCap
         /\ ENABLED WorkerSend(w)

C10_Witness ==
  /\ config.Requests >= 3
  /\ \E w \in Started : pc[w] = "send"
  /\ Len(results) = config.Requests - 1

\* C11: the producer emits exactly the tickets 0, 1, ..., Requests-1 in
\* increasing order, its send on jobs is never blocked (the buffer stays
\* within its capacity Requests), and it closes jobs once, only after the
\* last ticket; no ticket is sent after the close and no goroutine panics.
C11_ProducerContract ==
  /\ emitted = [i \in 1..prodI |-> i - 1]
  /\ prodI <= config.Requests
  /\ Len(jobs) <= config.Requests
  /\ Len(jobs) <= Len(emitted)
  /\ jobs = SubSeq(emitted, Len(emitted) - Len(jobs) + 1, Len(emitted))
  /\ (prodpc = "loop" /\ prodI < config.Requests) =>
       /\ ~jobsClosed
       /\ Len(jobs) < JobsCap
       /\ ENABLED ProducerSend
  /\ jobsClosed <=> prodpc = "done"
  /\ jobsClosed => (prodI = config.Requests /\ Len(emitted) = config.Requests)
  /\ ~panicked

C11_Witness ==
  /\ jobsClosed
  /\ config.Requests >= 3
  /\ config.Concurrency >= 2
  /\ emitted = <<0, 1, 2>>
  /\ Len(jobs) = config.Requests

\* the workers that have been started so far
Running == {w \in Workers : pc[w] # "unstarted"}

\* min(configured Concurrency, Requests)
MinCR == IF raw.Concurrency < raw.Requests THEN raw.Concurrency
         ELSE raw.Requests

\* C12: the number of workers runLoadTest starts never exceeds
\* min(configured Concurrency, Requests), and is exactly that once the
\* workers are started; with Requests = 1 and a larger Concurrency (5 for
\* parseFlags itself) one worker runs, one ticket is produced and one result
\* is collected.
C12_ConcurrencyClamped ==
  /\ Cardinality(Running) = spawnI
  /\ Running # {} => Cardinality(Running) <= MinCR
  /\ mainpc \in {"agg", "wait", "close", "return", "returned"} =>
       (Cardinality(Running) = MinCR /\ Running = 1..MinCR)
  /\ parseFlags([URL |-> GoodURL, Requests |-> 1, Concurrency |-> 5])
       = [err |-> FALSE,
          config |-> [URL |-> GoodURL, Requests |-> 1, Concurrency |-> 1]]
  /\ (raw.Requests = 1 /\ raw.Concurrency > 1) =>
       /\ Running \subseteq {1}
       /\ Len(emitted) <= 1
       /\ returned => /\ Running = {1}
                      /\ emitted = <<0>>
                      /\ report.TotalRequests = 1
                      /\ SumFn(claimCount, Tickets) = 1

C12_Witness ==
  /\ returned
  /\ raw.Requests = 1
  /\ raw.Concurrency > 1
  /\ pc[1] = "done"
  /\ \A w \in Workers \ {1} : pc[w] = "unstarted"
  /\ emitted = <<0>>
  /\ report.TotalRequests = 1

\* C13: a failed request (construction or client error) never stops or
\* escapes the worker: the worker holds a Result with Error set and
\* StatusCode 0, sends exactly that Result once and goes back to waiting for
\* a ticket; the aggregator counts it under StatusCodes[0] and not as a
\* success; no goroutine panics and the run still returns, with
\* StatusCodes[0] equal to the number of failed requests.
C13_FailureIsRecovered ==
  /\ [](/\ ~panicked
        /\ \A w \in Workers :
             (pc[w] = "send" /\ res[w].Error) => res[w] = ErrResult
        /\ returned =>
             MapGet(report.StatusCodes, 0) = MapGet(produced, 0))
  /\ [][\A w \in Workers :
          (pc[w] = "send" /\ res[w].Error /\ pc'[w] # "send") =>
             /\ pc'[w] = "select"
             /\ results' = Append(results, ErrResult)
             /\ sentCount'[ticket[w]] = 1
             /\ wg' = wg
             /\ \A v \in Workers \ {w} : pc'[v] = pc[v]]_vars
  /\ [][(aggI' = aggI + 1 /\ Head(results).Error) =>
          /\ MapGet(report'.StatusCodes, 0)
               = MapGet(report.StatusCodes, 0) + 1
          /\ report'.SuccessRequests = report.SuccessRequests
          /\ report'.TotalRequests = report.TotalRequests + 1]_vars
  /\ (\E w \in Workers : pc[w] = "send" /\ res[w].Error) ~> returned

C13_Witness ==
  /\ returned
  /\ config.URL = GoodURL
  /\ config.Concurrency >= 2
  /\ MapGet(report.StatusCodes, 0) >= 2
  /\ MapGet(report.StatusCodes, 200) >= 1
  /\ MapGet(produced, 0) = MapGet(report.StatusCodes, 0)

\* the command line is rejected by the validation of parseFlags
InvalidInput ==
  raw.URL = EmptyURL \/ raw.Requests <= 0 \/ raw.Concurrency <= 0

\* C14: when the raw input has an empty URL, Requests <= 0 or
\* Concurrency <= 0, the program stops with an error before runLoadTest is
\* entered: no worker is started, no ticket is produced, no HTTP call is
\* made and no report is returned; and the program exits that way only then.
C14_InvalidInputStopsBeforeRun ==
  /\ InvalidInput =>
       /\ mainpc \in {"parse", "exit1"}
       /\ config = NoConfig
       /\ Running = {}
       /\ wg = 0
       /\ prodpc = "unstarted"
       /\ emitted = <<>>
       /\ jobs = <<>>
       /\ \A t \in Tickets : claimCount[t] = 0 /\ attempts[t] = 0
       /\ produced = <<>>
       /\ results = <<>>
       /\ ~returned
  /\ mainpc = "exit1" => (InvalidInput /\ ~ENABLED Next)
  /\ (~InvalidInput /\ mainpc # "parse") => mainpc # "exit1"

C14_Witness ==
  /\ mainpc = "exit1"
  /\ raw.URL = GoodURL
  /\ raw.Requests >= 2
  /\ raw.Concurrency = 0
  /\ Running = {}

\* the aggregation loop of main.go:130-141 run over the Results
\* seq[lo], ..., seq[hi] in that order (split in two halves to bound the
\* depth of the evaluation)
RECURSIVE AggregateRange(_, _, _, _)
AggregateRange(rep, seq, lo, hi) ==
  IF lo > hi THEN rep
  ELSE IF lo = hi THEN Aggregate(rep, seq[lo])
  ELSE LET mid == (lo + hi) \div 2
           left == AggregateRange(rep, seq, lo, mid)
       IN IF left.TotalRequests < 0 THEN left
          ELSE AggregateRange(left, seq, mid + 1, hi)

\* 100 Results, 5 of them transport errors: the errors first, the errors
\* last, and one error every twentieth Result
ErrorsFirst == [i \in 1..100 |-> IF i <= 5 THEN ErrResult ELSE OKResult(200)]
ErrorsLast == [i \in 1..100 |-> IF i > 95 THEN ErrResult ELSE OKResult(200)]
ErrorsSpread ==
  [i \in 1..100 |-> IF i % 20 = 0 THEN ErrResult ELSE OKResult(200)]

\* the Report the loop body builds from each of them
ReportErrorsFirst == AggregateRange(EmptyReport, ErrorsFirst, 1, 100)
ReportErrorsLast == AggregateRange(EmptyReport, ErrorsLast, 1, 100)
ReportErrorsSpread == AggregateRange(EmptyReport, ErrorsSpread, 1, 100)

Report95_5 ==
  [TotalRequests |-> 100, SuccessRequests |-> 95,
   StatusCodes |-> (0 :> 5) @@ (200 :> 95)]

\* the Results that exist and are not yet aggregated, per code
Pending(c) ==
  Cardinality({i \in 1..Len(results) :
                 results[i].StatusCode = c /\ (results[i].Error <=> c = 0)})
  + Cardinality({w \in Workers :
                 pc[w] = "send" /\ res[w].StatusCode = c
                 /\ (res[w].Error <=> c = 0)})

\* C15: the Report is the count of the outcomes, whatever the interleaving
\* of workers and the order of arrival: at every moment StatusCodes[c] plus
\* the Results of code c still in the channel or in a worker's hand equals
\* the number of requests whose outcome was c (0 for errors); in the
\* finished Report StatusCodes is exactly that count and SuccessRequests the
\* number of outcomes 200; 95 responses 200 and 5 errors give
\* StatusCodes[200] = 95, StatusCodes[0] = 5, SuccessRequests = 95 in the
\* three orders above.
C15_ReportCountsOutcomes ==
  /\ \A c \in {0} \cup StatusSet :
       MapGet(report.StatusCodes, c) + Pending(c) = MapGet(produced, c)
  /\ returned =>
       /\ report.StatusCodes = produced
       /\ report.SuccessRequests = MapGet(produced, StatusOK)
       /\ SumMap(produced) = config.Requests
  /\ ReportErrorsFirst = Report95_5
  /\ ReportErrorsLast = Report95_5
  /\ ReportErrorsSpread = Report95_5

C15_Witness ==
  /\ returned
  /\ config.Concurrency >= 2
  /\ produced = (0 :> 1) @@ (200 :> 1) @@ (404 :> 1)
  /\ report.StatusCodes = produced
  /\ report.SuccessRequests = 1

\* 4xx and 5xx status codes the loop body is applied to
ErrorStatusSample == {400, 404, 499, 500, 503, 599}

\* C16: a Result without Error whose status code is a 4xx or 5xx is counted
\* under its own code, leaves StatusCodes[0] and every other entry alone and
\* does not increment SuccessRequests; SuccessRequests is incremented
\* exactly by the Results without Error whose code is 200.
C16_ServerErrorsAreOutcomes ==
  /\ [][(aggI' = aggI + 1 /\ ~Head(results).Error) =>
          LET c == Head(results).StatusCode
          IN /\ MapGet(report'.StatusCodes, c)
                  = MapGet(report.StatusCodes, c) + 1
             /\ \A k \in ({0} \cup StatusSet) \ {c} :
                  MapGet(report'.StatusCodes, k)
                    = MapGet(report.StatusCodes, k)
             /\ report'.SuccessRequests =
                  report.SuccessRequests + (IF c = 200 THEN 1 ELSE 0)]_vars
  /\ [][(aggI' = aggI + 1 /\ Head(results).Error) =>
          report'.SuccessRequests = report.SuccessRequests]_vars
  /\ [](\A c \in ErrorStatusSample :
          LET r == Aggregate(report, OKResult(c))
          IN /\ MapGet(r.StatusCodes, c) = MapGet(report.StatusCodes, c) + 1
             /\ MapGet(r.StatusCodes, 0) = MapGet(report.StatusCodes, 0)
             /\ MapGet(r.StatusCodes, 200) = MapGet(report.StatusCodes, 200)
             /\ r.SuccessRequests = report.SuccessRequests
             /\ r.TotalRequests = report.TotalRequests + 1)
  /\ [](returned =>
          /\ MapGet(report.StatusCodes, 404) = MapGet(produced, 404)
          /\ report.SuccessRequests
               = report.TotalRequests - MapGet(produced, 404)
                                      - MapGet(produced, 0))

C16_Witness ==
  /\ returned
  /\ MapGet(report.StatusCodes, 404) = 2
  /\ 0 \notin DOMAIN report.StatusCodes
  /\ report.SuccessRequests = 1
  /\ report.TotalRequests = 3

\* the workers that have a request in flight
Busy == {w \in Workers : InFlight(w)}

\* C17: at every moment at most config.Concurrency requests are in flight:
\* the workers in flight are as many as the tickets claimed and not yet
\* answered, one per worker; runLoadTest starts exactly the workers
\* 1..Concurrency; a worker that has returned stays returned.
C17_InFlightAtMostConcurrency ==
  /\ [](/\ Cardinality(Busy) <= config.Concurrency
        /\ Cardinality(Busy)
             = SumFn(claimCount, Tickets) - SumFn(sentCount, Tickets)
        /\ \A w \in Workers : InFlight(w) <=> ticket[w] # NoTicket
        /\ Running \subseteq 1..config.Concurrency
        /\ mainpc \in {"agg", "wait", "close", "return", "returned"} =>
             Running = 1..config.Concurrency)
  /\ [][\A w \in Workers :
          /\ pc[w] = "done" => pc'[w] = "done"
          /\ pc[w] # "unstarted" => pc'[w] # "unstarted"]_vars

C17_Witness ==
  /\ config.Concurrency = 2
  /\ config.Requests >= 3
  /\ Busy = {1, 2}
  /\ pc[1] = "call"
  /\ pc[2] = "call"
  /\ SumFn(sentCount, Tickets) >= 1

\* C18: every started worker eventually returns. A worker waiting in the
\* select can return as soon as jobs is closed and drained, canceled or
\* not, and as soon as the context is canceled; a worker that leaves the
\* select with no ticket to receive returns; and once all Requests results
\* are collected wg.Wait() eventually completes.
C18_WorkersEventuallyReturn ==
  /\ \A w \in Workers : (pc[w] # "unstarted") ~> (pc[w] = "done")
  /\ [](\A w \in Workers :
          /\ (pc[w] = "select" /\ jobs = <<>> /\ jobsClosed) =>
                ENABLED WorkerJobsClosed(w)
          /\ (pc[w] = "select" /\ cancelled) => ENABLED WorkerCtxDone(w))
  /\ [][\A w \in Workers :
          (pc[w] = "select" /\ jobs = <<>> /\ pc'[w] # "select") =>
             (pc'[w] = "done" /\ wg' = wg - 1)]_vars
  /\ (mainpc = "agg" /\ aggI = config.Requests) ~> (Joined /\ wg = 0)

C18_Witness ==
  /\ config.Concurrency >= 2
  /\ \A w \in Started : pc[w] = "done"
  /\ ~cancelled
  /\ mainpc = "agg"
  /\ aggI < config.Requests
  /\ wg = 0

\* C20: cancellation never strands work: whenever the context is canceled
\* every one of the Requests tickets has been emitted and claimed and jobs
\* is empty, so no worker ever finds both <-ctx.Done() and a waiting ticket
\* ready, and a worker that returns through <-ctx.Done() leaves no ticket
\* behind.
C20_CancelStrandsNoTicket ==
  /\ [](cancelled =>
          /\ jobs = <<>>
          /\ Len(emitted) = config.Requests
          /\ \A t \in 0..(config.Requests - 1) : claimCount[t] = 1)
  /\ [](\A w \in Workers :
          ~(pc[w] = "select" /\ cancelled /\ jobs # <<>>))
  /\ [][\A w \in Workers :
          (pc[w] = "select" /\ cancelled /\ pc'[w] = "done") =>
             (jobs = <<>> /\ jobs' = <<>>
              /\ SumFn(sentCount, Tickets) = config.Requests)]_vars

C20_Witness ==
  /\ cancelled
  /\ config.Requests >= 2
  /\ jobs = <<>>
  /\ jobsClosed
  /\ \E w \in Started :
       /\ pc[w] = "select"
       /\ ENABLED WorkerCtxDone(w)
       /\ ENABLED WorkerJobsClosed(w)

\* the numbers 1..n that are a multiple of 100 or equal to total, ascending
DueUpTo(n, total) ==
  SelectSeq([x \in 1..n |-> x], LAMBDA x : x % 100 = 0 \/ x = total)

\* C19: a progress line "X/R" is printed exactly when the number X of
\* aggregated results is a multiple of 100 or equals R: after X results the
\* lines printed are those of all such numbers up to X, in ascending order;
\* when runLoadTest has returned the last line is R/R and it was printed
\* once, also when R is a multiple of 100.
C19_ProgressLines ==
  /\ progress = DueUpTo(aggI, config.Requests)
  /\ \A i \in 1..(Len(progress) - 1) : progress[i] < progress[i + 1]
  /\ returned =>
       /\ progress # <<>>
       /\ progress[Len(progress)] = config.Requests
       /\ Cardinality({i \in 1..Len(progress) :
                         progress[i] = config.Requests}) = 1
       /\ Len(progress) = (config.Requests \div 100)
                          + (IF config.Requests % 100 = 0 THEN 0 ELSE 1)

C19_Witness ==
  /\ returned
  /\ config.Requests = 200
  /\ progress = <<100, 200>>
  /\ report.TotalRequests = 200
====
